---- MODULE Spec2Model ----
(***************************************************************************)
(* Structural equality of Arrow arrays (rust/arrow/src/array/equal.rs).    *)
(*                                                                         *)
(* An array is a record                                                    *)
(*   kind   the concrete Rust type the trait object dispatches to          *)
(*   dtype  the declared type tag (DataType), a tuple <<name, parameter>>  *)
(*   len, offset   the logical window into the shared buffers              *)
(*   bits   the validity bitmap over the WHOLE buffer (TRUE = valid),      *)
(*          <<>> when the array has no bitmap                              *)
(*   buf0   buffers()[0]: values (primitive), value bits (boolean),        *)
(*          offsets entries (string/binary/list), value bytes              *)
(*          (fixed-size binary), keys (dictionary)                         *)
(*   buf1   buffers()[1]: value bytes of string/binary arrays              *)
(*   width  byte width of one entry of buf0 (offset width for the          *)
(*          variable-length kinds, value_length for the fixed-size kinds)  *)
(*   child  child arrays (list values, dictionary values, struct columns)  *)
(*                                                                         *)
(* A call ends in one of the outcomes                                      *)
(*   "true" "false"      the boolean result                                *)
(*   "assert"            assert! failed                                    *)
(*   "unwrap"            Option::unwrap on None (a failed downcast)        *)
(*   "index"             slice index out of range                          *)
(*   "unimplemented"     unimplemented!()                                  *)
(*   "crash"             a raw read outside the buffer that faulted        *)
(* A raw read outside a buffer is undefined behaviour: the parameter u of  *)
(* every operator is the outcome the build produces for such reads         *)
(* (Crash: it faults; a value: the word or bit that happens to be there).  *)
(***************************************************************************)
EXTENDS Integers, Sequences, FiniteSets, TLC

VARIABLES a, b, json, op, args, res

vars == <<a, b, json, op, args, res>>

\* Physical slots of every buffer of a generated array.
MaxLen == 2

\* Scalar values / bytes / bits stored in the buffers.
Values == {0, 1}

Crash == 0 - 1

\* Outcomes of a raw read outside a buffer.
Oracle == Values \cup {Crash}

T == "true"

F == "false"

Bool(x) == IF x THEN T ELSE F

IsFault(r) == r \notin {T, F}

Min(x, y) == IF x <= y THEN x ELSE y

\* Byte slice data[from..to) of a buffer, 0-based, half-open; the caller has
\* checked the range.
Slice(data, from, to) == [k \in 1..(to - from) |-> data[from + k]]

RECURSIVE Repeat(_, _)
Repeat(x, n) == IF n = 0 THEN <<>> ELSE <<x>> \o Repeat(x, n - 1)

\* Little-endian bytes of one offsets entry of the given byte width.
RECURSIVE EntryBytes(_, _)
EntryBytes(v, w) == IF w = 0 THEN <<>> ELSE <<v % 256>> \o EntryBytes(v \div 256, w - 1)

\* Buffer::data() of a buffer of fixed-width entries.
RECURSIVE BufferBytes(_, _)
BufferBytes(entries, w) ==
    IF entries = <<>> THEN <<>>
    ELSE EntryBytes(Head(entries), w) \o BufferBytes(Tail(entries), w)

(***************************************************************************)
(* The Array capability the comparators read.                              *)
(***************************************************************************)

\* Array::is_null(i): "true" / "false", or a fault for a bit outside the bitmap.
IsNull(arr, i, u) ==
    IF arr.kind = "null" THEN T
    ELSE IF arr.bits = <<>> THEN F
    ELSE IF arr.offset + i < Len(arr.bits) THEN Bool(~arr.bits[arr.offset + i + 1])
    ELSE IF u = Crash THEN "index"
    ELSE Bool(u = 0)

\* Array::null_count(): the null slots of the logical window.
NullCount(arr) ==
    IF arr.kind = "null" THEN arr.len
    ELSE IF arr.bits = <<>> THEN 0
    ELSE Cardinality({i \in 0..(arr.len - 1) : ~arr.bits[arr.offset + i + 1]})

\* PrimitiveArray::value(i): a raw read of slot offset + i.
Value(arr, i, u) ==
    IF arr.offset + i < Len(arr.buf0) THEN arr.buf0[arr.offset + i + 1] ELSE u

\* bit_util::get_bit(data, i) on a bit-packed buffer.
GetBit(data, i) == data[i + 1]

\* downcast_ref::<Self>(): succeeds exactly for the same concrete Rust type.
Downcasts(self, other) == other.kind = self.kind

(***************************************************************************)
(* base_equal                                                              *)
(***************************************************************************)
RECURSIVE BaseBitmapLoop(_, _, _)
BaseBitmapLoop(this, other, i) ==
    IF i >= this.len THEN T
    ELSE IF GetBit(this.bits, i + this.offset) # GetBit(other.bits, i + other.offset) THEN F
    ELSE BaseBitmapLoop(this, other, i + 1)

\* base_equal reading both bitmaps at the offset of the left array.
base_equal_one_offset(this, other) ==
    IF this.dtype # other.dtype THEN F
    ELSE IF this.len # other.len THEN F
    ELSE IF NullCount(this) # NullCount(other) THEN F
    ELSE IF NullCount(this) > 0
         THEN BaseBitmapLoop(this, [other EXCEPT !.offset = this.offset], 0)
    ELSE T

base_equal(this, other) ==
    IF this.dtype # other.dtype THEN F
    ELSE IF this.len # other.len THEN F
    ELSE IF NullCount(this) # NullCount(other) THEN F
    ELSE IF NullCount(this) > 0 THEN BaseBitmapLoop(this, other, 0)
    ELSE T

(***************************************************************************)
(* PrimitiveArray<T> (T = Int32 for kind "prim", Boolean for kind "bool")  *)
(***************************************************************************)
RECURSIVE BoolEqualLoop(_, _, _)
BoolEqualLoop(lhs, rhs, i) ==
    IF i >= lhs.len THEN T
    ELSE IF /\ lhs.bits # <<>>  =>  lhs.bits[lhs.offset + i + 1]
            /\ GetBit(lhs.buf0, i + lhs.offset) # GetBit(rhs.buf0, i + rhs.offset)
         THEN F
    ELSE BoolEqualLoop(lhs, rhs, i + 1)

\* bool_equal comparing the value bit of every slot, null slots included.
bool_equal_every_bit(lhs, rhs) ==
    Bool(\A i \in 0..(lhs.len - 1) :
            GetBit(lhs.buf0, i + lhs.offset) = GetBit(rhs.buf0, i + rhs.offset))

bool_equal(lhs, rhs) == BoolEqualLoop(lhs, rhs, 0)

RECURSIVE PrimEqualsLoop(_, _, _)
PrimEqualsLoop(self, other, i) ==
    IF i >= self.len THEN T
    ELSE IF /\ self.bits[self.offset + i + 1]
            /\ self.buf0[i + self.offset + 1] # other.buf0[i + other.offset + 1]
         THEN F
    ELSE PrimEqualsLoop(self, other, i + 1)

\* PrimitiveEquals reading both sides at the offset of self.
PrimitiveEqualsOneOffset(self, other) ==
    IF base_equal(self, other) = F THEN F
    ELSE IF self.kind = "bool" THEN bool_equal(self, other)
    ELSE IF NullCount(self) > 0
         THEN PrimEqualsLoop(self, [other EXCEPT !.offset = self.offset], 0)
    ELSE Bool(Slice(self.buf0, self.offset, self.offset + self.len)
              = Slice(other.buf0, self.offset, self.offset + self.len))

PrimitiveEquals(self, other) ==
    IF base_equal(self, other) = F THEN F
    ELSE IF self.kind = "bool" THEN bool_equal(self, other)
    ELSE IF NullCount(self) > 0 THEN PrimEqualsLoop(self, other, 0)
    ELSE Bool(Slice(self.buf0, self.offset, self.offset + self.len)
              = Slice(other.buf0, other.offset, other.offset + self.len))

\* PrimRangeLoop that does not advance the other index after a null pair.
RECURSIVE PrimRangeLoopStalls(_, _, _, _, _, _)
PrimRangeLoopStalls(self, other, i, end_idx, j, u) ==
    IF i >= end_idx THEN T
    ELSE LET is_null == IsNull(self, i, u)
             other_is_null == IsNull(other, j, u)
         IN IF IsFault(is_null) THEN is_null
            ELSE IF IsFault(other_is_null) THEN other_is_null
            ELSE IF is_null # other_is_null THEN F
            ELSE IF is_null = T THEN PrimRangeLoopStalls(self, other, i + 1, end_idx, j, u)
            ELSE IF Crash \in {Value(self, i, u), Value(other, j, u)} THEN "crash"
            ELSE IF Value(self, i, u) # Value(other, j, u) THEN F
            ELSE PrimRangeLoopStalls(self, other, i + 1, end_idx, j + 1, u)

RECURSIVE PrimRangeLoop(_, _, _, _, _, _)
PrimRangeLoop(self, other, i, end_idx, j, u) ==
    IF i >= end_idx THEN T
    ELSE LET is_null == IsNull(self, i, u)
             other_is_null == IsNull(other, j, u)
         IN IF IsFault(is_null) THEN is_null
            ELSE IF IsFault(other_is_null) THEN other_is_null
            ELSE IF is_null # other_is_null THEN F
            ELSE IF is_null = F /\ Crash \in {Value(self, i, u), Value(other, j, u)}
                 THEN "crash"
            ELSE IF is_null = F /\ Value(self, i, u) # Value(other, j, u) THEN F
            ELSE PrimRangeLoop(self, other, i + 1, end_idx, j + 1, u)

\* PrimitiveRangeEquals without its assertion: the range is trusted.
PrimitiveRangeEqualsUnchecked(self, other, start_idx, end_idx, other_start_idx, u) ==
    IF ~Downcasts(self, other) THEN "unwrap"
    ELSE PrimRangeLoop(self, other, start_idx, end_idx, other_start_idx, u)

PrimitiveRangeEquals(self, other, start_idx, end_idx, other_start_idx, u) ==
    IF ~(other_start_idx + (end_idx - start_idx) <= other.len) THEN "assert"
    ELSE IF ~Downcasts(self, other) THEN "unwrap"
    ELSE PrimRangeLoop(self, other, start_idx, end_idx, other_start_idx, u)

(***************************************************************************)
(* Offsets of the variable-length and fixed-size kinds                     *)
(***************************************************************************)

\* value_offset_at(i): entry i of the array's own offsets table; for the
\* fixed-size kinds the computed offset of element i.
ValueOffsetAt(arr, i) ==
    IF arr.kind \in {"fsb", "fsl"} THEN (arr.offset + i) * arr.width
    ELSE arr.buf0[arr.offset + i + 1]

\* value_offset(i): a raw read of entry offset + i of the offsets table.
ValueOffset(arr, i, u) ==
    IF arr.kind \in {"fsb", "fsl"} THEN (arr.offset + i) * arr.width
    ELSE IF arr.offset + i < Len(arr.buf0) THEN arr.buf0[arr.offset + i + 1]
    ELSE u

\* The bytes of buffers()[0] as Buffer::data() shows them.
Buffer0Bytes(arr) ==
    IF arr.kind = "fsb" THEN arr.buf0 ELSE BufferBytes(arr.buf0, arr.width)

\* value_data().data(): the value bytes.
ValueData(arr) == IF arr.kind = "fsb" THEN arr.buf0 ELSE arr.buf1

\* x[xs..xs+n] == y[ys..ys+n] on byte slices: a slice past the end panics.
SliceEq(x, xs, y, ys, n) ==
    IF xs + n > Len(x) \/ ys + n > Len(y) THEN "index"
    ELSE Bool(Slice(x, xs, xs + n) = Slice(y, ys, ys + n))

RECURSIVE ValueOffsetLoop(_, _, _)
ValueOffsetLoop(this, other, i) ==
    IF i > this.len THEN T
    ELSE IF ValueOffsetAt(this, i) - ValueOffsetAt(this, 0)
            # ValueOffsetAt(other, i) - ValueOffsetAt(other, 0) THEN F
    ELSE ValueOffsetLoop(this, other, i + 1)

value_offset_equal(this, other) ==
    IF this.offset = 0 /\ other.offset = 0
    THEN LET offset_data == Buffer0Bytes(this)
             other_offset_data == Buffer0Bytes(other)
         IN IF (this.len + 1) * 4 > Len(offset_data) THEN "index"
            ELSE IF (other.len + 1) * 4 > Len(other_offset_data) THEN "index"
            ELSE Bool(Slice(offset_data, 0, (this.len + 1) * 4)
                      = Slice(other_offset_data, 0, (other.len + 1) * 4))
    ELSE ValueOffsetLoop(this, other, 0)

(***************************************************************************)
(* GenericStringArray / GenericBinaryArray / FixedSizeBinaryArray          *)
(***************************************************************************)
RECURSIVE BytesEqualsLoop(_, _, _, _)
BytesEqualsLoop(self, other, i, u) ==
    IF i >= self.len THEN T
    ELSE IF IsNull(self, i, u) = T THEN BytesEqualsLoop(self, other, i + 1, u)
    ELSE LET start == ValueOffset(self, i, u)
             other_start == ValueOffset(other, i, u)
             len == ValueOffset(self, i + 1, u) - ValueOffset(self, i, u)
             eq == SliceEq(ValueData(self), start, ValueData(other), other_start, len)
         IN IF eq # T THEN eq ELSE BytesEqualsLoop(self, other, i + 1, u)

\* The part of equals after base_equal and the downcast, shared by the three
\* byte-array kinds (the source repeats it in each).
BytesEqualsBody(self, other, u) ==
    LET offs == value_offset_equal(self, other)
    IN IF offs # T THEN offs
       ELSE IF NullCount(self) = 0
       THEN IF self.offset = 0 /\ other.offset = 0
            THEN SliceEq(ValueData(self), 0, ValueData(other), 0,
                         ValueOffset(self, self.len, u))
            ELSE SliceEq(ValueData(self), ValueOffset(self, 0, u),
                         ValueData(other), ValueOffset(other, 0, u),
                         ValueOffset(self, self.len, u) - ValueOffset(self, 0, u))
       ELSE BytesEqualsLoop(self, other, 0, u)

RECURSIVE BytesRangeLoop(_, _, _, _, _, _)
BytesRangeLoop(self, other, i, end_idx, j, u) ==
    IF i >= end_idx THEN T
    ELSE LET is_null == IsNull(self, i, u)
             other_is_null == IsNull(other, j, u)
             start_offset == ValueOffset(self, i, u)
             end_offset == ValueOffset(self, i + 1, u)
             other_start_offset == ValueOffset(other, j, u)
             other_end_offset == ValueOffset(other, j + 1, u)
             eq == SliceEq(ValueData(self), start_offset,
                           ValueData(other), other_start_offset,
                           end_offset - start_offset)
         IN IF IsFault(is_null) THEN is_null
            ELSE IF IsFault(other_is_null) THEN other_is_null
            ELSE IF is_null # other_is_null THEN F
            \* continue: j is not advanced
            ELSE IF is_null = T THEN BytesRangeLoop(self, other, i + 1, end_idx, j, u)
            ELSE IF Crash \in {start_offset, end_offset, other_start_offset, other_end_offset}
                 THEN "crash"
            ELSE IF end_offset - start_offset # other_end_offset - other_start_offset THEN F
            ELSE IF end_offset - start_offset > 0 /\ eq # T THEN eq
            ELSE BytesRangeLoop(self, other, i + 1, end_idx, j + 1, u)

BytesRangeBody(self, other, start_idx, end_idx, other_start_idx, u) ==
    IF ~(other_start_idx + (end_idx - start_idx) <= other.len) THEN "assert"
    ELSE IF ~Downcasts(self, other) THEN "unwrap"
    ELSE BytesRangeLoop(self, other, start_idx, end_idx, other_start_idx, u)

GenericStringEquals(self, other, u) ==
    IF base_equal(self, other) = F THEN F
    ELSE IF ~Downcasts(self, other) THEN "unwrap"
    ELSE BytesEqualsBody(self, other, u)

GenericStringRangeEquals(self, other, start_idx, end_idx, other_start_idx, u) ==
    BytesRangeBody(self, other, start_idx, end_idx, other_start_idx, u)

GenericBinaryEquals(self, other, u) ==
    IF base_equal(self, other) = F THEN F
    ELSE IF ~Downcasts(self, other) THEN "unwrap"
    ELSE BytesEqualsBody(self, other, u)

GenericBinaryRangeEquals(self, other, start_idx, end_idx, other_start_idx, u) ==
    BytesRangeBody(self, other, start_idx, end_idx, other_start_idx, u)

FixedSizeBinaryEquals(self, other, u) ==
    IF base_equal(self, other) = F THEN F
    ELSE IF ~Downcasts(self, other) THEN "unwrap"
    ELSE BytesEqualsBody(self, other, u)

FixedSizeBinaryRangeEquals(self, other, start_idx, end_idx, other_start_idx, u) ==
    BytesRangeBody(self, other, start_idx, end_idx, other_start_idx, u)

(***************************************************************************)
(* ArrayEqual: dynamic dispatch on the concrete type of self               *)
(***************************************************************************)
RECURSIVE Equals(_, _, _)
RECURSIVE RangeEquals(_, _, _, _, _, _)

(***************************************************************************)
(* GenericListArray                                                        *)
(***************************************************************************)

\* values(): the child values array.
ValuesOf(arr) == arr.child[1]

GenericListEquals(self, other, u) ==
    IF base_equal(self, other) = F THEN F
    ELSE IF ~Downcasts(self, other) THEN "unwrap"
    ELSE LET offs == value_offset_equal(self, other)
         IN IF offs # T THEN offs
            ELSE RangeEquals(ValuesOf(self), ValuesOf(other),
                             ValueOffset(self, 0, u), ValueOffset(self, self.len, u),
                             ValueOffset(other, 0, u), u)

RECURSIVE ListRangeLoop(_, _, _, _, _, _)
ListRangeLoop(self, other, i, end_idx, j, u) ==
    IF i >= end_idx THEN T
    ELSE LET is_null == IsNull(self, i, u)
             other_is_null == IsNull(other, j, u)
             start_offset == ValueOffset(self, i, u)
             end_offset == ValueOffset(self, i + 1, u)
             other_start_offset == ValueOffset(other, j, u)
             other_end_offset == ValueOffset(other, j + 1, u)
             \* the other LIST array, not its values, is handed to the child
             eq == RangeEquals(ValuesOf(self), other,
                               start_offset, end_offset, other_start_offset, u)
         IN IF IsFault(is_null) THEN is_null
            ELSE IF IsFault(other_is_null) THEN other_is_null
            ELSE IF is_null # other_is_null THEN F
            \* continue: j is not advanced
            ELSE IF is_null = T THEN ListRangeLoop(self, other, i + 1, end_idx, j, u)
            ELSE IF Crash \in {start_offset, end_offset, other_start_offset, other_end_offset}
                 THEN "crash"
            ELSE IF end_offset - start_offset # other_end_offset - other_start_offset THEN F
            ELSE IF eq # T THEN eq
            ELSE ListRangeLoop(self, other, i + 1, end_idx, j + 1, u)

GenericListRangeEquals(self, other, start_idx, end_idx, other_start_idx, u) ==
    IF ~(other_start_idx + (end_idx - start_idx) <= other.len) THEN "assert"
    ELSE IF ~Downcasts(self, other) THEN "unwrap"
    ELSE ListRangeLoop(self, other, start_idx, end_idx, other_start_idx, u)

(***************************************************************************)
(* FixedSizeListArray                                                      *)
(***************************************************************************)
FixedSizeListEquals(self, other, u) ==
    IF base_equal(self, other) = F THEN F
    ELSE IF ~Downcasts(self, other) THEN "unwrap"
    ELSE RangeEquals(ValuesOf(self), ValuesOf(other),
                     ValueOffset(self, 0, u), ValueOffset(self, self.len, u),
                     ValueOffset(other, 0, u), u)

RECURSIVE FixedSizeListRangeLoop(_, _, _, _, _, _)
FixedSizeListRangeLoop(self, other, i, end_idx, j, u) ==
    IF i >= end_idx THEN T
    ELSE LET is_null == IsNull(self, i, u)
             other_is_null == IsNull(other, j, u)
             start_offset == ValueOffset(self, i, u)
             end_offset == ValueOffset(self, i + 1, u)
             other_start_offset == ValueOffset(other, j, u)
             other_end_offset == ValueOffset(other, j + 1, u)
             eq == RangeEquals(ValuesOf(self), ValuesOf(other),
                               start_offset, end_offset, other_start_offset, u)
         IN IF IsFault(is_null) THEN is_null
            ELSE IF IsFault(other_is_null) THEN other_is_null
            ELSE IF is_null # other_is_null THEN F
            \* continue: j is not advanced
            ELSE IF is_null = T
                 THEN FixedSizeListRangeLoop(self, other, i + 1, end_idx, j, u)
            ELSE IF end_offset - start_offset # other_end_offset - other_start_offset THEN F
            ELSE IF eq # T THEN eq
            ELSE FixedSizeListRangeLoop(self, other, i + 1, end_idx, j + 1, u)

FixedSizeListRangeEquals(self, other, start_idx, end_idx, other_start_idx, u) ==
    IF ~(other_start_idx + (end_idx - start_idx) <= other.len) THEN "assert"
    ELSE IF ~Downcasts(self, other) THEN "unwrap"
    ELSE FixedSizeListRangeLoop(self, other, start_idx, end_idx, other_start_idx, u)

\* The index pairs <<i, j>> at the head of the iterations of the loop of
\* GenericListArray::range_equals and FixedSizeListArray::range_equals, in
\* order, up to the iteration that returns.
RECURSIVE NestedRangeIndices(_, _, _, _, _, _)
NestedRangeIndices(self, other, i, end_idx, j, u) ==
    IF i >= end_idx THEN <<>>
    ELSE LET is_null == IsNull(self, i, u)
             other_is_null == IsNull(other, j, u)
             start_offset == ValueOffset(self, i, u)
             end_offset == ValueOffset(self, i + 1, u)
             other_start_offset == ValueOffset(other, j, u)
             other_end_offset == ValueOffset(other, j + 1, u)
             eq == RangeEquals(ValuesOf(self),
                               IF self.kind = "list" THEN other ELSE ValuesOf(other),
                               start_offset, end_offset, other_start_offset, u)
         IN <<<<i, j>>>> \o
            (IF IsFault(is_null) \/ IsFault(other_is_null) THEN <<>>
             ELSE IF is_null # other_is_null THEN <<>>
             ELSE IF is_null = T
                  THEN NestedRangeIndices(self, other, i + 1, end_idx, j, u)
             ELSE IF Crash \in {start_offset, end_offset, other_start_offset, other_end_offset}
                  THEN <<>>
             ELSE IF end_offset - start_offset # other_end_offset - other_start_offset
                  THEN <<>>
             ELSE IF eq # T THEN <<>>
             ELSE NestedRangeIndices(self, other, i + 1, end_idx, j + 1, u))

(***************************************************************************)
(* DictionaryArray                                                         *)
(***************************************************************************)

\* keys(): one Option per logical slot, <<>> for None and <<k>> for Some(k).
Keys(arr) ==
    [k \in 1..arr.len |->
        IF ~arr.bits[arr.offset + k] THEN <<>> ELSE <<arr.buf0[arr.offset + k]>>]

\* Iterator::take(n) and Iterator::skip(n).
Take(seq, n) == SubSeq(seq, 1, Min(n, Len(seq)))

Skip(seq, n) == SubSeq(seq, n + 1, Len(seq))

DictionaryRangeEquals(self, other, start_idx, end_idx, other_start_idx, u) ==
    IF ~(other_start_idx + (end_idx - start_idx) <= other.len) THEN "assert"
    ELSE IF ~Downcasts(self, other) THEN "unwrap"
    ELSE LET iter_a == Skip(Take(Keys(self), end_idx), start_idx)
             iter_b == Skip(Keys(other), other_start_idx)
         IN IF iter_a # iter_b THEN F
            ELSE RangeEquals(ValuesOf(self), ValuesOf(other),
                             0, ValuesOf(other).len, 0, u)

DictionaryEquals(self, other, u) ==
    DictionaryRangeEquals(self, other, 0, self.len, 0, u)

(***************************************************************************)
(* StructArray                                                             *)
(***************************************************************************)
RECURSIVE StructColumnsLoop(_, _, _, _, _, _)
StructColumnsLoop(self, other, k, i, j, u) ==
    IF k > Len(self.child) THEN T
    ELSE IF k > Len(other.child) THEN "index"
    ELSE LET eq == RangeEquals(self.child[k], other.child[k], i, i + 1, j, u)
         IN IF eq # T THEN eq ELSE StructColumnsLoop(self, other, k + 1, i, j, u)

RECURSIVE StructEqualsLoop(_, _, _, _)
StructEqualsLoop(self, other, i, u) ==
    IF i >= self.len THEN T
    ELSE LET is_null == IsNull(self, i, u)
             other_is_null == IsNull(other, i, u)
             cols == StructColumnsLoop(self, other, 1, i, i, u)
         IN IF is_null # other_is_null THEN F
            ELSE IF is_null = T THEN StructEqualsLoop(self, other, i + 1, u)
            ELSE IF cols # T THEN cols
            ELSE StructEqualsLoop(self, other, i + 1, u)

StructEquals(self, other, u) ==
    IF base_equal(self, other) = F THEN F
    ELSE IF ~Downcasts(self, other) THEN "unwrap"
    ELSE StructEqualsLoop(self, other, 0, u)

RECURSIVE StructRangeLoop(_, _, _, _, _, _)
StructRangeLoop(self, other, i, end_idx, j, u) ==
    IF i >= end_idx THEN T
    ELSE LET is_null == IsNull(self, i, u)
             \* the other side's validity is read at i, not at j
             other_is_null == IsNull(other, i, u)
             cols == StructColumnsLoop(self, other, 1, i, j, u)
         IN IF IsFault(is_null) THEN is_null
            ELSE IF IsFault(other_is_null) THEN other_is_null
            ELSE IF is_null # other_is_null THEN F
            \* continue: j is not advanced
            ELSE IF is_null = T THEN StructRangeLoop(self, other, i + 1, end_idx, j, u)
            ELSE IF cols # T THEN cols
            ELSE StructRangeLoop(self, other, i + 1, end_idx, j + 1, u)

StructRangeEquals(self, other, start_idx, end_idx, other_start_idx, u) ==
    IF ~(other_start_idx + (end_idx - start_idx) <= other.len) THEN "assert"
    ELSE IF ~Downcasts(self, other) THEN "unwrap"
    ELSE StructRangeLoop(self, other, start_idx, end_idx, other_start_idx, u)

(***************************************************************************)
(* UnionArray, NullArray                                                   *)
(***************************************************************************)
UnionEquals(self, other) == "unimplemented"

\* UnionRangeEquals answering "unequal" instead of faulting.
UnionRangeEqualsSilent(self, other, start_idx, end_idx, other_start_idx) == F

UnionRangeEquals(self, other, start_idx, end_idx, other_start_idx) == "unimplemented"

\* NullEquals that also compares the logical offsets.
NullEqualsSameOffset(self, other) ==
    IF other.dtype # <<"Null", 0>> THEN F
    ELSE IF self.len # other.len THEN F
    ELSE IF self.offset # other.offset THEN F
    ELSE T

NullEquals(self, other) ==
    IF other.dtype # <<"Null", 0>> THEN F
    ELSE IF self.len # other.len THEN F
    ELSE IF NullCount(self) # NullCount(other) THEN F
    ELSE T

NullRangeEquals(self, other, start_idx, end_idx, other_start_idx) == "unimplemented"

Equals(self, other, u) ==
    CASE self.kind \in {"prim", "bool"} -> PrimitiveEquals(self, other)
      [] self.kind \in {"str", "lstr"} -> GenericStringEquals(self, other, u)
      [] self.kind = "bin" -> GenericBinaryEquals(self, other, u)
      [] self.kind = "fsb" -> FixedSizeBinaryEquals(self, other, u)
      [] self.kind = "list" -> GenericListEquals(self, other, u)
      [] self.kind = "fsl" -> FixedSizeListEquals(self, other, u)
      [] self.kind = "dict" -> DictionaryEquals(self, other, u)
      [] self.kind = "struct" -> StructEquals(self, other, u)
      [] self.kind = "union" -> UnionEquals(self, other)
      [] self.kind = "null" -> NullEquals(self, other)

RangeEquals(self, other, start_idx, end_idx, other_start_idx, u) ==
    CASE self.kind \in {"prim", "bool"} ->
            PrimitiveRangeEquals(self, other, start_idx, end_idx, other_start_idx, u)
      [] self.kind \in {"str", "lstr"} ->
            GenericStringRangeEquals(self, other, start_idx, end_idx, other_start_idx, u)
      [] self.kind = "bin" ->
            GenericBinaryRangeEquals(self, other, start_idx, end_idx, other_start_idx, u)
      [] self.kind = "fsb" ->
            FixedSizeBinaryRangeEquals(self, other, start_idx, end_idx, other_start_idx, u)
      [] self.kind = "list" ->
            GenericListRangeEquals(self, other, start_idx, end_idx, other_start_idx, u)
      [] self.kind = "fsl" ->
            FixedSizeListRangeEquals(self, other, start_idx, end_idx, other_start_idx, u)
      [] self.kind = "dict" ->
            DictionaryRangeEquals(self, other, start_idx, end_idx, other_start_idx, u)
      [] self.kind = "struct" ->
            StructRangeEquals(self, other, start_idx, end_idx, other_start_idx, u)
      [] self.kind = "union" ->
            UnionRangeEquals(self, other, start_idx, end_idx, other_start_idx)
      [] self.kind = "null" ->
            NullRangeEquals(self, other, start_idx, end_idx, other_start_idx)

(***************************************************************************)
(* Arrays the comparisons are run on                                       *)
(***************************************************************************)
Array(kind, dtype, len, offset, bits, buf0, buf1, width, child) ==
    [kind |-> kind, dtype |-> dtype, len |-> len, offset |-> offset, bits |-> bits,
     buf0 |-> buf0, buf1 |-> buf1, width |-> width, child |-> child]

\* Array::slice(offset, length): a new view over the same buffers.
SliceArray(arr, offset, length) ==
    [arr EXCEPT !.offset = arr.offset + offset, !.len = length]

\* The (offset, length) windows of a buffer of n slots.
Windows(n) == {w \in (0..n) \X (0..n) : w[1] + w[2] <= n /\ (w[2] = 0 => w[1] = 0)}

Bitmaps(n) == [1..n -> BOOLEAN]

PrimArrays ==
    {Array("prim", <<"Int32", 0>>, w[2], w[1], bm, vs, <<>>, 4, <<>>) :
        w \in Windows(MaxLen), bm \in Bitmaps(MaxLen), vs \in [1..MaxLen -> Values]}

BoolArrays ==
    {Array("bool", <<"Boolean", 0>>, w[2], w[1], bm, vs, <<>>, 1, <<>>) :
        w \in Windows(MaxLen), bm \in Bitmaps(MaxLen), vs \in [1..MaxLen -> Values]}

\* A slot of a byte array as a builder is given it: valid with its bytes, or
\* null with the bytes its span covers.
Slot(valid, bytes) == [valid |-> valid, bytes |-> bytes]

RECURSIVE SlotBytes(_)
SlotBytes(slots) ==
    IF slots = <<>> THEN <<>> ELSE Head(slots).bytes \o SlotBytes(Tail(slots))

RECURSIVE SlotOffsets(_, _)
SlotOffsets(slots, from) ==
    IF slots = <<>> THEN <<from>>
    ELSE <<from>> \o SlotOffsets(Tail(slots), from + Len(Head(slots).bytes))

SlotBits(slots) == [k \in 1..Len(slots) |-> slots[k].valid]

\* Values of at most one byte; a null slot spans no byte or one byte.
StringSlots ==
    {Slot(TRUE, bs) : bs \in {<<>>} \cup {<<v>> : v \in Values}}
    \cup {Slot(FALSE, bs) : bs \in {<<>>, <<0>>}}

VarLenArrays(kind, dtype, width) ==
    {Array(kind, dtype, w[2], w[1], SlotBits(ss), SlotOffsets(ss, 0), SlotBytes(ss),
           width, <<>>) :
        w \in Windows(MaxLen), ss \in [1..MaxLen -> StringSlots]}

StringArrays == VarLenArrays("str", <<"Utf8", 0>>, 4)

LargeStringArrays == VarLenArrays("lstr", <<"LargeUtf8", 0>>, 8)

BinaryArrays == VarLenArrays("bin", <<"Binary", 0>>, 4)

FsbWidths == {1, 4}

FsbSlots(width) ==
    {Slot(valid, <<v>> \o Repeat(0, width - 1)) : valid \in BOOLEAN, v \in Values}

FixedSizeBinaryArrays ==
    UNION {{Array("fsb", <<"FixedSizeBinary", width>>, w[2], w[1], SlotBits(ss),
                  SlotBytes(ss), <<>>, width, <<>>) :
                w \in Windows(MaxLen), ss \in [1..MaxLen -> FsbSlots(width)]} :
           width \in FsbWidths}

\* The Int32 values child of a list: every child slot valid, no bitmap.
ChildOf(values) ==
    Array("prim", <<"Int32", 0>>, Len(values), 0, <<>>, values, <<>>, 4, <<>>)

\* A list row holds no value or one value; a null row may cover a child value.
ListSlots ==
    {Slot(TRUE, bs) : bs \in {<<>>} \cup {<<v>> : v \in Values}}
    \cup {Slot(FALSE, bs) : bs \in {<<>>, <<1>>}}

ListArrays ==
    {Array("list", <<"List", 0>>, w[2], w[1], SlotBits(ss), SlotOffsets(ss, 0), <<>>,
           4, <<ChildOf(SlotBytes(ss))>>) :
        w \in Windows(MaxLen), ss \in [1..MaxLen -> ListSlots]}

\* Child slots of a fixed-size list of stride 1: the row's validity, and the
\* child slot's validity and value.
FslSlots ==
    {s \in [valid : BOOLEAN, cvalid : BOOLEAN, value : Values] : s.cvalid \/ s.value = 0}

FixedSizeListArrays ==
    {Array("fsl", <<"FixedSizeList", 1>>, w[2], w[1], SlotBits(ss), <<>>, <<>>, 1,
           <<Array("prim", <<"Int32", 0>>, MaxLen, 0,
                   [k \in 1..MaxLen |-> ss[k].cvalid],
                   [k \in 1..MaxLen |-> ss[k].value], <<>>, 4, <<>>)>>) :
        w \in Windows(MaxLen), ss \in [1..MaxLen -> FslSlots]}

\* Dictionary values: Int32 arrays without nulls, of every length up to MaxLen.
DictValues ==
    {Array("prim", <<"Int32", 0>>, n, 0, <<>>, vs, <<>>, 4, <<>>) :
        n \in 1..MaxLen, vs \in {<<0>> \o Repeat(v, MaxLen - 1) : v \in Values}}

\* A key slot: a valid key, or a null slot (whose key bytes are 0).
KeySlots == {Slot(TRUE, <<v>>) : v \in Values} \cup {Slot(FALSE, <<0>>)}

DictionaryArrays ==
    {Array("dict", <<"Dictionary", 0>>, w[2], w[1], SlotBits(ss), SlotBytes(ss), <<>>,
           1, <<vals>>) :
        w \in Windows(MaxLen), ss \in [1..MaxLen -> KeySlots], vals \in DictValues}

\* A struct of one Int32 column of the struct's own length.
StructArrays ==
    UNION {{Array("struct", <<"Struct", 1>>, col.len, 0, bm, <<>>, <<>>, 0, <<col>>) :
                bm \in Bitmaps(col.len)} :
           col \in PrimArrays}

UnionArrays ==
    {Array("union", <<"Union", 0>>, n, 0, <<>>, <<>>, <<>>, 0, <<>>) : n \in 0..MaxLen}

NullArrays ==
    {Array("null", <<"Null", 0>>, w[2], w[1], <<>>, <<>>, <<>>, 0, <<>>) :
        w \in Windows(MaxLen)}

Kinds ==
    <<PrimArrays, BoolArrays, StringArrays, LargeStringArrays, BinaryArrays,
      FixedSizeBinaryArrays, ListArrays, FixedSizeListArrays, DictionaryArrays,
      StructArrays, UnionArrays, NullArrays>>

SameKindPairs == UNION {Kinds[k] \X Kinds[k] : k \in DOMAIN Kinds}

\* One full-length, unsliced array of every kind, for comparisons across kinds.
Samples ==
    {CHOOSE arr \in Kinds[k] : arr.len = MaxLen /\ arr.offset = 0 : k \in DOMAIN Kinds}

CrossKindPairs == {p \in Samples \X Samples : p[1].kind # p[2].kind}

Pairs == SameKindPairs \cup CrossKindPairs

(***************************************************************************)
(* JsonEqual: an array against a sequence of reference nodes               *)
(***************************************************************************)

\* A serde_json Value: its kind t and the payload of that kind.
JNull == [t |-> "null"]

JNumber(n) == [t |-> "number", n |-> n]

JBool(v) == [t |-> "bool", b |-> v]

\* A string node: the bytes of its UTF-8 text.
JString(s) == [t |-> "string", s |-> s]

\* A sequence node: its nodes in order.
JArray(nodes) == [t |-> "array", a |-> nodes]

\* A mapping node: a function from its field names to nodes.
JObject(fields) == [t |-> "object", o |-> fields]

\* Value::get(name).unwrap_or(&Value::Null): the field of a mapping, the null
\* node for an absent field and for every node that is not a mapping.
Get(node, name) ==
    IF node.t = "object" /\ name \in DOMAIN node.o THEN node.o[name] ELSE JNull

\* into_json_value(): a number node for an integer, a bool node for a boolean.
IntoJsonValue(arr, v) == IF arr.kind = "bool" THEN JBool(v) ELSE JNumber(v)

\* The value of one hex digit (0-9, a-f, A-F), 16 for any other character.
HexVal(c) ==
    IF c \in 48..57 THEN c - 48
    ELSE IF c \in 97..102 THEN c - 87
    ELSE IF c \in 65..70 THEN c - 55
    ELSE 16

RECURSIVE HexPairs(_)
HexPairs(s) ==
    IF s = <<>> THEN <<>>
    ELSE <<HexVal(s[1]) * 16 + HexVal(s[2])>> \o HexPairs(SubSeq(s, 3, Len(s)))

\* Vec::from_hex(s): <<"Ok", bytes>>, or <<"Err">> for a string of odd length
\* or with a character that is no hex digit.
FromHex(s) ==
    IF Len(s) % 2 # 0 \/ \E k \in 1..Len(s) : HexVal(s[k]) = 16 THEN <<"Err">>
    ELSE <<"Ok", HexPairs(s)>>

\* value(i) of a string, binary or fixed-size binary array: the bytes of slot i.
ValueBytes(arr, i) ==
    Slice(ValueData(arr), ValueOffsetAt(arr, i), ValueOffsetAt(arr, i + 1))

\* value(i) of a list or fixed-size list array: the slice of the child values.
ValueSlice(arr, i) ==
    SliceArray(ValuesOf(arr), ValueOffsetAt(arr, i),
               ValueOffsetAt(arr, i + 1) - ValueOffsetAt(arr, i))

\* value_length(i) of a list; value_length() of a fixed-size list.
ValueLength(arr, i) == ValueOffsetAt(arr, i + 1) - ValueOffsetAt(arr, i)

\* column_names() and column_by_name(name) of a struct array.
FieldNames == <<"f1", "f2">>

ColumnNames(arr) == [k \in 1..Len(arr.child) |-> FieldNames[k]]

ColumnByName(arr, name) ==
    IF \E k \in 1..Len(arr.child) : FieldNames[k] = name
    THEN <<arr.child[CHOOSE k \in 1..Len(arr.child) : FieldNames[k] = name]>>
    ELSE <<>>

RECURSIVE EqualsJson(_, _)

PrimitiveEqualsJson(self, nodes) ==
    IF self.len # Len(nodes) THEN F
    ELSE Bool(\A i \in 0..(self.len - 1) :
                IF nodes[i + 1] = JNull THEN IsNull(self, i, 0) = T
                ELSE /\ IsNull(self, i, 0) = F
                     /\ nodes[i + 1] = IntoJsonValue(self, Value(self, i, 0)))

\* ListRowEqualsJson where a null node matches a null row only.
ListRowEqualsJsonStrictNull(self, i, node) ==
    CASE node.t = "array" ->
            IF IsNull(self, i, 0) = T THEN F ELSE EqualsJson(ValueSlice(self, i), node.a)
      [] node.t = "null" -> IsNull(self, i, 0)
      [] OTHER -> F

\* The match of one row of a list or fixed-size list against its node.
ListRowEqualsJson(self, i, node) ==
    CASE node.t = "array" ->
            IF IsNull(self, i, 0) = T THEN F ELSE EqualsJson(ValueSlice(self, i), node.a)
      [] node.t = "null" -> Bool(IsNull(self, i, 0) = T \/ ValueLength(self, i) = 0)
      [] OTHER -> F

\* (0..len).all(..): the rows in order, ending at the first row that does not match.
RECURSIVE ListAllRows(_, _, _)
ListAllRows(self, nodes, i) ==
    IF i >= self.len THEN T
    ELSE LET row == ListRowEqualsJson(self, i, nodes[i + 1])
         IN IF row # T THEN row ELSE ListAllRows(self, nodes, i + 1)

GenericListEqualsJson(self, nodes) ==
    IF self.len # Len(nodes) THEN F ELSE ListAllRows(self, nodes, 0)

FixedSizeListEqualsJson(self, nodes) ==
    IF self.len # Len(nodes) THEN F ELSE ListAllRows(self, nodes, 0)

\* keys().zip(json.iter()).all(..): the pairs in order up to the shorter side.
RECURSIVE DictionaryZipAll(_, _, _)
DictionaryZipAll(keys, nodes, k) ==
    IF k > Len(keys) \/ k > Len(nodes) THEN T
    ELSE IF keys[k] = <<>> /\ nodes[k] = JNull THEN DictionaryZipAll(keys, nodes, k + 1)
    ELSE IF keys[k] # <<>> /\ nodes[k].t = "number"
         THEN \* j.as_u64().unwrap(): None for a negative number
              IF nodes[k].n < 0 THEN "unwrap"
              ELSE IF keys[k][1] = nodes[k].n THEN DictionaryZipAll(keys, nodes, k + 1)
              ELSE F
    ELSE F

DictionaryEqualsJson(self, nodes) == DictionaryZipAll(Keys(self), nodes, 1)

\* StructColumnsEqualsJson that skips the rows the struct marks null.
RECURSIVE StructColumnsEqualsJsonValidRows(_, _, _)
StructColumnsEqualsJsonValidRows(self, nodes, k) ==
    IF k > Len(ColumnNames(self)) THEN T
    ELSE LET column_name == ColumnNames(self)[k]
             arr == ColumnByName(self, column_name)
             rows == {n \in 1..Len(nodes) : IsNull(self, n - 1, 0) = F}
         IN IF arr = <<>> THEN F
            ELSE IF \E n \in 1..Len(nodes) \ rows : nodes[n] # JNull THEN F
            ELSE IF \E n \in rows :
                       EqualsJson(SliceArray(arr[1], n - 1, 1),
                                  <<Get(nodes[n], column_name)>>) # T
                 THEN F
            ELSE StructColumnsEqualsJsonValidRows(self, nodes, k + 1)

\* The columns in declaration order, ending at the first one that does not match.
RECURSIVE StructColumnsEqualsJson(_, _, _)
StructColumnsEqualsJson(self, nodes, k) ==
    IF k > Len(ColumnNames(self)) THEN T
    ELSE LET column_name == ColumnNames(self)[k]
             json_values == [n \in 1..Len(nodes) |-> Get(nodes[n], column_name)]
             arr == ColumnByName(self, column_name)
             eq == IF arr = <<>> THEN F ELSE EqualsJson(arr[1], json_values)
         IN IF eq # T THEN eq ELSE StructColumnsEqualsJson(self, nodes, k + 1)

\* StructEqualsJson where a null element is matched against the row validity
\* of the struct itself.
StructEqualsJsonRowValidity(self, nodes) ==
    IF self.len # Len(nodes) THEN F
    ELSE IF ~(\A n \in 1..Len(nodes) : nodes[n].t \in {"object", "null"}) THEN F
    ELSE IF \E n \in 1..Len(nodes) : nodes[n].t = "null" /\ IsNull(self, n - 1, 0) = F THEN F
    ELSE StructColumnsEqualsJson(self, nodes, 1)

StructEqualsJson(self, nodes) ==
    IF self.len # Len(nodes) THEN F
    ELSE IF ~(\A n \in 1..Len(nodes) : nodes[n].t \in {"object", "null"}) THEN F
    ELSE StructColumnsEqualsJson(self, nodes, 1)

\* BinaryNodesEqual without the hex decoding.
BinaryNodesEqualRawOnly(self, nodes) ==
    IF self.len # Len(nodes) THEN F
    ELSE Bool(\A i \in 0..(self.len - 1) :
                CASE nodes[i + 1].t = "string" ->
                        IsNull(self, i, 0) = F /\ nodes[i + 1].s = ValueBytes(self, i)
                  [] nodes[i + 1].t = "null" -> IsNull(self, i, 0) = T
                  [] OTHER -> FALSE)

\* Shared by GenericBinaryArray and FixedSizeBinaryArray (the source repeats it).
BinaryNodesEqual(self, nodes) ==
    IF self.len # Len(nodes) THEN F
    ELSE Bool(\A i \in 0..(self.len - 1) :
                CASE nodes[i + 1].t = "string" ->
                        /\ IsNull(self, i, 0) = F
                        /\ \/ nodes[i + 1].s = ValueBytes(self, i)
                           \/ FromHex(nodes[i + 1].s) = <<"Ok", ValueBytes(self, i)>>
                  [] nodes[i + 1].t = "null" -> IsNull(self, i, 0) = T
                  [] OTHER -> FALSE)

GenericBinaryEqualsJson(self, nodes) == BinaryNodesEqual(self, nodes)

\* GenericStringEqualsJson where a null node also matches an empty valid string.
GenericStringEqualsJsonNullIsEmpty(self, nodes) ==
    IF self.len # Len(nodes) THEN F
    ELSE Bool(\A i \in 0..(self.len - 1) :
                CASE nodes[i + 1].t = "string" ->
                        IsNull(self, i, 0) = F /\ nodes[i + 1].s = ValueBytes(self, i)
                  [] nodes[i + 1].t = "null" ->
                        IsNull(self, i, 0) = T \/ ValueBytes(self, i) = <<>>
                  [] OTHER -> FALSE)

GenericStringEqualsJson(self, nodes) ==
    IF self.len # Len(nodes) THEN F
    ELSE Bool(\A i \in 0..(self.len - 1) :
                CASE nodes[i + 1].t = "string" ->
                        IsNull(self, i, 0) = F /\ nodes[i + 1].s = ValueBytes(self, i)
                  [] nodes[i + 1].t = "null" -> IsNull(self, i, 0) = T
                  [] OTHER -> FALSE)

FixedSizeBinaryEqualsJson(self, nodes) == BinaryNodesEqual(self, nodes)

UnionEqualsJson(self, nodes) == "unimplemented"

\* NullEqualsJson without the length test.
NullEqualsJsonAnyLength(self, nodes) ==
    Bool(\A k \in 1..Len(nodes) : nodes[k] = JNull)

NullEqualsJson(self, nodes) ==
    IF self.len # Len(nodes) THEN F
    ELSE Bool(\A k \in 1..Len(nodes) : nodes[k] = JNull)

EqualsJson(self, nodes) ==
    CASE self.kind \in {"prim", "bool"} -> PrimitiveEqualsJson(self, nodes)
      [] self.kind \in {"str", "lstr"} -> GenericStringEqualsJson(self, nodes)
      [] self.kind = "bin" -> GenericBinaryEqualsJson(self, nodes)
      [] self.kind = "fsb" -> FixedSizeBinaryEqualsJson(self, nodes)
      [] self.kind = "list" -> GenericListEqualsJson(self, nodes)
      [] self.kind = "fsl" -> FixedSizeListEqualsJson(self, nodes)
      [] self.kind = "dict" -> DictionaryEqualsJson(self, nodes)
      [] self.kind = "struct" -> StructEqualsJson(self, nodes)
      [] self.kind = "union" -> UnionEqualsJson(self, nodes)
      [] self.kind = "null" -> NullEqualsJson(self, nodes)

\* Reference nodes: null, numbers (one of them negative), a bool, strings over
\* the characters NUL, SOH, '0' and '1', sequences of scalars, mappings.
JsonNumbers == {JNumber(v) : v \in Values \cup {0 - 1}}

JsonStrings == {JString(s) : s \in {<<>>, <<0>>, <<1>>, <<48>>, <<48, 48>>, <<48, 49>>}}

JsonScalars == {JNull} \cup {JNumber(v) : v \in Values}

JsonArrays ==
    {JArray(ns) : ns \in {<<>>, <<JNumber(0), JNumber(1)>>} \cup {<<n>> : n \in JsonScalars}}

JsonObjects ==
    {JObject([n \in {} |-> JNull]), JObject([n \in {"f2"} |-> JNumber(0)])}
    \cup {JObject([n \in {"f1"} |-> x]) : x \in JsonScalars}

JsonNodes ==
    {JNull, JBool(1)} \cup JsonNumbers \cup JsonStrings \cup JsonArrays \cup JsonObjects

JsonSequences == UNION {[1..n -> JsonNodes] : n \in 0..MaxLen}

(***************************************************************************)
(* The state machine: one comparison per run                               *)
(***************************************************************************)
Start(pairs) ==
    /\ \E p \in pairs : a = p[1] /\ b = p[2]
    /\ json = <<>>
    /\ op = "none"
    /\ args = <<0, 0, 0>>
    /\ res = "none"

Init == Start(Pairs)

CallEquals ==
    /\ op = "none"
    /\ \E u \in Oracle : res' = Equals(a, b, u)
    /\ op' = "equals"
    /\ UNCHANGED <<a, b, json, args>>

CallRangeEquals ==
    /\ op = "none"
    /\ \E start_idx \in 0..MaxLen, other_start_idx \in 0..MaxLen, u \in Oracle :
         \E end_idx \in start_idx..MaxLen :
            /\ res' = RangeEquals(a, b, start_idx, end_idx, other_start_idx, u)
            /\ args' = <<start_idx, end_idx, other_start_idx>>
    /\ op' = "range_equals"
    /\ UNCHANGED <<a, b, json>>

CallEqualsJson ==
    /\ op = "none"
    /\ \E nodes \in JsonSequences :
            /\ res' = EqualsJson(a, nodes)
            /\ json' = nodes
    /\ op' = "equals_json"
    /\ UNCHANGED <<a, b, args>>

\* base_equal as the comparators call it: on the data of self, first thing in
\* equals of every kind but dictionary, union and null.
CallBaseEqual ==
    /\ op = "none"
    /\ a.kind \in {"prim", "bool", "str", "lstr", "bin", "fsb", "list", "fsl", "struct"}
    /\ res' = base_equal(a, b)
    /\ op' = "base_equal"
    /\ UNCHANGED <<a, b, json, args>>

\* value_offset_equal as the comparators call it: after base_equal has passed
\* and other has been downcast to the type of self.
CallValueOffsetEqual ==
    /\ op = "none"
    /\ a.kind \in {"str", "lstr", "bin", "fsb", "list"}
    /\ base_equal(a, b) = T
    /\ Downcasts(a, b)
    /\ res' = value_offset_equal(a, b)
    /\ op' = "value_offset_equal"
    /\ UNCHANGED <<a, b, json, args>>

Next == CallEquals \/ CallRangeEquals \/ CallBaseEqual \/ CallValueOffsetEqual

Spec == Init /\ [][Next]_vars

\* The unsupported variants: a union or null-typed array against any array and
\* any reference sequence.
UnsupportedPairs == (UnionArrays \cup NullArrays) \X (Samples \cup UnionArrays \cup NullArrays)

InitUnsupported == Start(UnsupportedPairs)

NextUnsupported == CallEquals \/ CallRangeEquals \/ CallEqualsJson

SpecUnsupported == InitUnsupported /\ [][NextUnsupported]_vars

\* Reference-value equality: an array of any kind against any reference sequence.
InitJson == Start(UNION {{<<arr, arr>> : arr \in Kinds[k]} : k \in DOMAIN Kinds})

NextJson == CallEqualsJson

SpecJson == InitJson /\ [][NextJson]_vars

(***************************************************************************)
(* What the claims speak of                                                *)
(***************************************************************************)

\* The kinds with a whole-array and a ranged comparator.
Comparable ==
    {"prim", "bool", "str", "lstr", "bin", "fsb", "list", "fsl", "dict", "struct"}

\* The logical value of slot i of an array: <<>> for a null slot, <<v>> for a
\* valid one, v being the scalar, the bytes, the child values or the cells.
RECURSIVE SlotValue(_, _)
SlotValue(arr, i) ==
    LET p == arr.offset + i
        span(from, to) == [k \in 1..(to - from) |-> SlotValue(arr.child[1], from + k - 1)]
    IN IF arr.bits # <<>> /\ ~arr.bits[p + 1] THEN <<>>
       ELSE CASE arr.kind \in {"prim", "bool", "dict"} -> <<arr.buf0[p + 1]>>
              [] arr.kind \in {"str", "lstr", "bin"} ->
                    <<Slice(arr.buf1, arr.buf0[p + 1], arr.buf0[p + 2])>>
              [] arr.kind = "fsb" -> <<Slice(arr.buf0, p * arr.width, (p + 1) * arr.width)>>
              [] arr.kind = "list" -> <<span(arr.buf0[p + 1], arr.buf0[p + 2])>>
              [] arr.kind = "fsl" -> <<span(p * arr.width, (p + 1) * arr.width)>>
              [] arr.kind = "struct" ->
                    <<[c \in 1..Len(arr.child) |-> SlotValue(arr.child[c], i)]>>

\* Slot i of x and slot j of y are both null, or both valid with equal values.
SameSlot(x, i, y, j) == SlotValue(x, i) = SlotValue(y, j)

\* The logical sequence an array represents.
Logical(arr) == [k \in 1..arr.len |-> SlotValue(arr, k - 1)]

\* Two arrays of one type with the same validity and values (two dictionary
\* arrays: the same keys over the same values array).
SameContent(x, y) ==
    /\ x.dtype = y.dtype
    /\ Logical(x) = Logical(y)
    /\ x.kind = "dict" => /\ x.child[1].len = y.child[1].len
                          /\ Logical(x.child[1]) = Logical(y.child[1])

\* The call was range_equals over a range that lies inside both arrays.
InBoundsRange ==
    /\ op = "range_equals"
    /\ args[2] <= a.len
    /\ args[3] + (args[2] - args[1]) <= b.len

\* The copies of an array that differ from it in one value byte (or bit) stored
\* at the position of a null slot.
NullSlotBytes(arr) ==
    LET nulls == {i \in 0..(arr.len - 1) : arr.bits # <<>> /\ ~arr.bits[arr.offset + i + 1]}
    IN CASE arr.kind \in {"prim", "bool"} -> {<<"buf0", arr.offset + i + 1>> : i \in nulls}
         [] arr.kind \in {"str", "lstr", "bin"} ->
               {<<"buf1", k>> : k \in UNION {(arr.buf0[arr.offset + i + 1] + 1)
                                             ..arr.buf0[arr.offset + i + 2] : i \in nulls}}
         [] arr.kind = "fsb" ->
               {<<"buf0", k>> : k \in UNION {((arr.offset + i) * arr.width + 1)
                                             ..((arr.offset + i + 1) * arr.width) : i \in nulls}}
         [] OTHER -> {}

NullMutations(arr) ==
    {IF pos[1] = "buf0" THEN [arr EXCEPT !.buf0[pos[2]] = v]
                        ELSE [arr EXCEPT !.buf1[pos[2]] = v] :
        pos \in NullSlotBytes(arr), v \in Values}
    \ {arr}

(***************************************************************************)
(* The claims                                                              *)
(***************************************************************************)

\* C1: for two arrays of one supported kind, equals gives the result of the
\* full-range comparison range_equals(other, 0, len, 0), nulls included.
\* Stated for two arrays of the same type and length, where the full range
\* lies inside both.
C1_EqualsIsFullRange ==
    (/\ op = "range_equals"
     /\ a.kind \in Comparable
     /\ a.dtype = b.dtype
     /\ a.len = b.len
     /\ args = <<0, a.len, 0>>)
    => \A u \in Oracle : Equals(a, b, u) = res

\* C2: a.equals(b) and b.equals(a) end the same way for two arrays of one kind.
C2_Symmetry ==
    (op = "equals" /\ a.kind \in Comparable /\ a.kind = b.kind)
    => \A u \in Oracle : Equals(b, a, u) = res

\* C3: an array equals itself: a.equals(a) returns true.
C3_Reflexivity ==
    (op = "equals" /\ a.kind \in Comparable \cup {"null"} /\ a = b) => res = T

\* C4: two slices of one kind are equal exactly when their windows hold the
\* same logical content, whatever their offsets and whatever lies outside.
C4_SliceInvariance ==
    (op = "equals" /\ a.kind \in Comparable /\ a.kind = b.kind)
    => res = Bool(SameContent(a, b))

\* C5: changing a value byte stored at a null slot of a primitive, boolean,
\* string, binary or fixed-size binary array never changes the result of equals.
C5_NullByteIndependence ==
    (op = "equals" /\ a.kind = b.kind)
    => \A m \in NullMutations(a) : \A u \in Oracle : Equals(m, b, u) = res

\* C6: equals on two arrays whose type tags differ returns false, for every
\* kind with a comparator.
C6_TypeMismatchIsFalse ==
    (op = "equals" /\ a.kind \in Comparable \cup {"null"} /\ a.dtype # b.dtype)
    => res = F

\* C7: on two arrays of one kind, equals, and range_equals over a range that
\* lies inside both arrays, return true or false and never fault.
C7_Total ==
    (/\ a.kind \in Comparable
     /\ a.kind = b.kind
     /\ a.dtype = b.dtype
     /\ op = "equals" \/ InBoundsRange)
    => res \in {T, F}

\* C8: range_equals with other_start_idx + (end_idx - start_idx) > other.len()
\* ends in the assertion failure, for every kind that implements it.
C8_RangePastOtherAsserts ==
    (/\ op = "range_equals"
     /\ a.kind \in Comparable
     /\ args[3] + (args[2] - args[1]) > b.len)
    => res = "assert"

\* C8 happens: a struct range comparison whose range lies inside self but runs
\* past the end of other has ended in the assertion failure.
C8_Witness ==
    /\ op = "range_equals"
    /\ a.kind = "struct"
    /\ b.kind = "struct"
    /\ args[2] <= a.len
    /\ args[3] + (args[2] - args[1]) > b.len
    /\ res = "assert"

\* C9: every equals, range_equals and equals_json on a union array, and every
\* range_equals on a null-typed array, ends in the unsupported-operation fault.
C9_UnsupportedFaults ==
    (\/ a.kind = "union" /\ op # "none"
     \/ a.kind = "null" /\ op = "range_equals")
    => res = "unimplemented"

\* C9 happens: equals_json on a union array, given a sequence of its own length,
\* has ended in the unsupported-operation fault.
C9_Witness ==
    /\ a.kind = "union"
    /\ op = "equals_json"
    /\ Len(json) = a.len
    /\ res = "unimplemented"

\* C10: for string, binary and fixed-size binary arrays, range_equals over an
\* in-bounds range is true exactly when every pair of slots start + k and
\* other_start + k is both null, or both valid with the same bytes.
C10_BytesRangeIsSlotwise ==
    (InBoundsRange /\ a.kind \in {"str", "lstr", "bin", "fsb"} /\ a.dtype = b.dtype)
    => res = Bool(\A k \in 0..(args[2] - args[1] - 1) :
                     SameSlot(a, args[1] + k, b, args[3] + k))

\* C11: for two primitive arrays of one type, equals is true exactly when the
\* lengths are equal, the validity of every slot matches, and the values at
\* every valid slot are equal, slot i being read at position i + offset of
\* each side.
C11_PrimitiveEquals ==
    (op = "equals" /\ a.kind = "prim" /\ b.kind = "prim" /\ a.dtype = b.dtype)
    => res = Bool(/\ a.len = b.len
                  /\ \A i \in 0..(a.len - 1) :
                        /\ a.bits[a.offset + i + 1] = b.bits[b.offset + i + 1]
                        /\ a.bits[a.offset + i + 1]
                              => a.buf0[a.offset + i + 1] = b.buf0[b.offset + i + 1])

\* C11 happens: two primitive windows at different offsets, one slot of them
\* null, have compared equal.
C11_Witness ==
    /\ op = "equals"
    /\ a.kind = "prim"
    /\ b.kind = "prim"
    /\ a.offset # b.offset
    /\ a.len = 1
    /\ res = T
    /\ \E arr \in {a, b} : arr.offset = 0 /\ ~arr.bits[2]

\* C12: for two boolean arrays, equals is true exactly when lengths and null
\* counts are equal, validity matches at every index, and the value bits at
\* i + offset of each side are equal at every index valid on the left; the
\* value bits at null indices are not compared.
C12_BooleanEquals ==
    (op = "equals" /\ a.kind = "bool" /\ b.kind = "bool")
    => res = Bool(/\ a.len = b.len
                  /\ NullCount(a) = NullCount(b)
                  /\ \A i \in 0..(a.len - 1) :
                        /\ a.bits[a.offset + i + 1] = b.bits[b.offset + i + 1]
                        /\ a.bits[a.offset + i + 1]
                              => a.buf0[a.offset + i + 1] = b.buf0[b.offset + i + 1])

\* C12 happens: two boolean arrays whose value bits differ at a null index
\* have compared equal.
C12_Witness ==
    /\ op = "equals"
    /\ a.kind = "bool"
    /\ b.kind = "bool"
    /\ res = T
    /\ \E i \in 0..(a.len - 1) :
          /\ ~a.bits[a.offset + i + 1]
          /\ a.buf0[a.offset + i + 1] # b.buf0[b.offset + i + 1]

\* C13: for two string or binary arrays of one offset width, equals is true
\* exactly when they represent the same logical sequence: equal length, the
\* same null positions, the same bytes at every valid index, whatever the
\* physical offsets and whatever span the offsets table gives a null slot.
C13_StringEqualsIsLogical ==
    (op = "equals" /\ a.kind \in {"str", "lstr", "bin"} /\ a.kind = b.kind)
    => res = Bool(Logical(a) = Logical(b))

\* C14: for a null-typed array a and any array b, a.equals(b) is true exactly
\* when b is null-typed with the length and the null count of a, whatever the
\* logical offsets of the two.
C14_NullEquals ==
    (op = "equals" /\ a.kind = "null")
    => res = Bool(/\ b.kind = "null"
                  /\ a.len = b.len
                  /\ NullCount(a) = NullCount(b))

\* C14 happens: two null-typed slices of one length taken at different
\* offsets have compared equal.
C14_Witness ==
    /\ op = "equals"
    /\ a.kind = "null"
    /\ b.kind = "null"
    /\ a.offset # b.offset
    /\ a.len > 0
    /\ res = T

\* C15: for every kind with reference-value equality, equals_json returns
\* false whenever the number of reference nodes differs from the length of the
\* array.
C15_JsonLengthMismatchIsFalse ==
    (/\ op = "equals_json"
     /\ a.kind \in {"prim", "str", "lstr", "bin", "fsb", "list", "fsl", "dict",
                    "struct", "null"}
     /\ Len(json) # a.len)
    => res = F

\* The node that slot i of an Int32 or string array is equal to: the null node
\* for a null slot, the number or the string of the value for a valid one.
NodeOfSlot(arr, i) ==
    IF SlotValue(arr, i) = <<>> THEN JNull
    ELSE IF arr.kind = "prim" THEN JNumber(SlotValue(arr, i)[1])
    ELSE JString(SlotValue(arr, i)[1])

\* C16: for primitive and string arrays, equals_json on a sequence of the
\* array's length is true exactly when every node is the null node at a null
\* slot, and at a valid slot the number equal to the scalar (primitive) or the
\* string with exactly the value's content (string).
C16_ScalarNodesMatch ==
    (op = "equals_json" /\ a.kind \in {"prim", "str", "lstr"} /\ Len(json) = a.len)
    => res = Bool(\A i \in 0..(a.len - 1) : json[i + 1] = NodeOfSlot(a, i))

\* C16 happens: a string array with a null and a valid slot has matched its
\* reference sequence.
C16_Witness ==
    /\ op = "equals_json"
    /\ a.kind = "str"
    /\ a.len = 2
    /\ Len(json) = 2
    /\ {json[1].t, json[2].t} = {"null", "string"}
    /\ res = T

\* C17: for binary and fixed-size binary arrays, a string node matches slot i
\* exactly when the slot is valid and the string's bytes, or the bytes it
\* hex-decodes to, are the slot's bytes; a null node matches a null slot only;
\* every other node is a mismatch.
C17_BinaryNodesMatch ==
    (op = "equals_json" /\ a.kind \in {"bin", "fsb"} /\ Len(json) = a.len)
    => res = Bool(\A i \in 0..(a.len - 1) :
                    LET node == json[i + 1]
                        slot == SlotValue(a, i)
                    IN \/ node.t = "null" /\ slot = <<>>
                       \/ /\ node.t = "string"
                          /\ slot # <<>>
                          /\ \/ node.s = slot[1]
                             \/ FromHex(node.s) = <<"Ok", slot[1]>>)

\* C17 happens: a binary array has matched a string node through the hex
\* decoding, the raw bytes being different.
C17_Witness ==
    /\ op = "equals_json"
    /\ a.kind \in {"bin", "fsb"}
    /\ res = T
    /\ \E i \in 0..(a.len - 1) :
          /\ json[i + 1].t = "string"
          /\ json[i + 1].s # SlotValue(a, i)[1]

\* C18: for list and fixed-size list arrays, equals_json on a sequence of the
\* array's length is true exactly when at every index a sequence node meets a
\* valid slot whose child values equal the sequence node by node, or a null
\* node meets a null slot or a value of length zero.
C18_ListNodesMatch ==
    (op = "equals_json" /\ a.kind \in {"list", "fsl"} /\ Len(json) = a.len)
    => res = Bool(\A i \in 0..(a.len - 1) :
                    LET node == json[i + 1]
                        slot == SlotValue(a, i)
                    IN \/ node.t = "null" /\ (slot = <<>> \/ ValueLength(a, i) = 0)
                       \/ /\ node.t = "array"
                          /\ slot # <<>>
                          /\ Len(node.a) = Len(slot[1])
                          /\ \A k \in 1..Len(node.a) :
                                node.a[k] = IF slot[1][k] = <<>> THEN JNull
                                            ELSE JNumber(slot[1][k][1]))

\* C18 happens: a list array has matched a null node at a valid row of length
\* zero.
C18_Witness ==
    /\ op = "equals_json"
    /\ a.kind = "list"
    /\ res = T
    /\ \E i \in 0..(a.len - 1) : json[i + 1] = JNull /\ SlotValue(a, i) = <<<<>>>>

\* C19: for a struct array, equals_json is false if the lengths differ or an
\* element is neither a mapping nor null; otherwise it is true exactly when
\* every column matches the sequence of the values looked up under its name,
\* an absent field and every field of a null element being the null node.
C19_StructNodesMatch ==
    (op = "equals_json" /\ a.kind = "struct")
    => res = Bool(/\ Len(json) = a.len
                  /\ \A n \in 1..Len(json) : json[n].t \in {"object", "null"}
                  /\ \A c \in 1..Len(a.child) : \A i \in 0..(a.len - 1) :
                        LET node == json[i + 1]
                            field == IF node.t = "object" /\ FieldNames[c] \in DOMAIN node.o
                                     THEN node.o[FieldNames[c]] ELSE JNull
                        IN field = NodeOfSlot(a.child[c], i))

\* C19 happens: a struct array has matched a sequence holding a mapping
\* without the column's field and a mapping with it.
C19_Witness ==
    /\ op = "equals_json"
    /\ a.kind = "struct"
    /\ a.len = 2
    /\ res = T
    /\ \E n, m \in 1..Len(json) :
          /\ json[n].t = "object" /\ DOMAIN json[n].o = {}
          /\ json[m].t = "object" /\ DOMAIN json[m].o = {"f1"}

\* C20: a null-typed array matches a reference sequence exactly when the
\* sequence has the length of the array and every node of it is the null node.
C20_NullNodesMatch ==
    (op = "equals_json" /\ a.kind = "null")
    => res = Bool(Len(json) = a.len /\ \A k \in 1..Len(json) : json[k] = JNull)

\* C20 happens: a null-typed array of two slots has matched two null nodes.
C20_Witness ==
    /\ op = "equals_json"
    /\ a.kind = "null"
    /\ a.len = 2
    /\ json = <<JNull, JNull>>
    /\ res = T

\* The copies of an array that differ from it in one validity bit outside its
\* logical window.
OutsideBitMutations(arr) ==
    {[arr EXCEPT !.bits[k] = ~arr.bits[k]] :
        k \in {k \in 1..Len(arr.bits) : k <= arr.offset \/ k > arr.offset + arr.len}}

\* C21: base_equal is true exactly when the two arrays have the same type tag,
\* length and null count and, the null count being positive, validity bit
\* i + this.offset of the left equals validity bit i + other.offset of the
\* right for every i below the length; a bit outside the two windows never
\* changes the result.
C21_BaseEqual ==
    op = "base_equal"
    => /\ res = Bool(/\ a.dtype = b.dtype
                     /\ a.len = b.len
                     /\ NullCount(a) = NullCount(b)
                     /\ NullCount(a) > 0
                          => \A i \in 0..(a.len - 1) :
                                a.bits[a.offset + i + 1] = b.bits[b.offset + i + 1])
       /\ \A m \in OutsideBitMutations(a) : base_equal(m, b) = res
       /\ \A m \in OutsideBitMutations(b) : base_equal(a, m) = res

\* C21 happens: two windows at different offsets, with a null slot, whose
\* bitmaps differ outside the windows, have passed the base check.
C21_Witness ==
    /\ op = "base_equal"
    /\ res = T
    /\ a.offset # b.offset
    /\ NullCount(a) > 0
    /\ a.bits # b.bits

\* C23: for two variable-length arrays of equal length and logical offset
\* zero, value_offset_equal (the raw comparison of the offsets buffers) gives
\* the result of the generic path, which compares offsets[i] - offsets[0]
\* pairwise for i in 0..=length; for 32-bit and for 64-bit offsets.
C23_OffsetPathsAgree ==
    (/\ op = "value_offset_equal"
     /\ a.kind \in {"str", "lstr", "bin", "list"}
     /\ a.offset = 0
     /\ b.offset = 0)
    => res = ValueOffsetLoop(a, b, 0)

\* What the base compatibility check establishes: the same type tag, length
\* and null count, and the same validity over the two logical windows.
BaseCompatible(x, y) ==
    /\ x.dtype = y.dtype
    /\ x.len = y.len
    /\ NullCount(x) = NullCount(y)
    /\ \A i \in 0..(x.len - 1) : IsNull(x, i, 0) = IsNull(y, i, 0)

\* C22: in equals of every kind the base compatibility check comes before any
\* downcast, key, value or child comparison: whenever the two arrays fail it,
\* equals ends with false.
C22_BaseCheckFirst ==
    (op = "equals" /\ a.kind \in Comparable \cup {"null"} /\ ~BaseCompatible(a, b))
    => res = F

\* C24: in range_equals of list and fixed-size list arrays the two indices
\* advance in lock-step: at the head of every iteration
\* j - other_start_idx = i - start_idx, also after an iteration in which both
\* slots were null.
C24_LockStep ==
    (InBoundsRange /\ a.kind \in {"list", "fsl"} /\ b.kind = a.kind)
    => \A u \in Oracle :
          LET pairs == NestedRangeIndices(a, b, args[1], args[2], args[3], u)
          IN \A k \in 1..Len(pairs) : pairs[k][2] - args[3] = pairs[k][1] - args[1]

\* C25: for struct arrays, range_equals over an in-bounds range is true
\* exactly when for every k row start + k of self and row other_start + k of
\* other have the same validity and, both being valid, every column's cell at
\* the one row equals the cell at the other; also when other_start differs
\* from start and when the range holds null rows.
C25_StructRangeIsRowwise ==
    (InBoundsRange /\ a.kind = "struct" /\ b.kind = "struct")
    => res = Bool(\A k \in 0..(args[2] - args[1] - 1) :
                     SameSlot(a, args[1] + k, b, args[3] + k))

\* C26: for dictionary arrays over equal values arrays, range_equals over an
\* in-bounds range is true exactly when key start + k of self equals key
\* other_start + k of other (a null key matching a null key only) for every k;
\* the keys of other after the range do not matter.
C26_DictionaryRangeIsKeywise ==
    (InBoundsRange /\ a.kind = "dict" /\ b.kind = "dict" /\ a.child = b.child)
    => res = Bool(\A k \in 0..(args[2] - args[1] - 1) :
                     SameSlot(a, args[1] + k, b, args[3] + k))

\* C27: two dictionary arrays with identical key sequences whose values arrays
\* differ in length or at some index compare unequal: equals and range_equals
\* return false.
C27_DictionaryValuesMustMatch ==
    (/\ op = "equals" \/ InBoundsRange
     /\ a.kind = "dict"
     /\ b.kind = "dict"
     /\ Keys(a) = Keys(b)
     /\ Logical(a.child[1]) # Logical(b.child[1]))
    => res = F

\* C28: for list and fixed-size list arrays, two arrays of one length with the
\* same null rows and equal child values under every valid row compare equal,
\* whatever child values or child validity lie under the null rows.
C28_ChildUnderNullRowIgnored ==
    (/\ op = "equals"
     /\ a.kind \in {"list", "fsl"}
     /\ b.kind = a.kind
     /\ Logical(a) = Logical(b))
    => res = T

\* C29: for primitive and boolean arrays, range_equals over an in-bounds range
\* is true exactly when for every k slot start + k of self and slot
\* other_start + k of other are both null, or both valid with equal values.
C29_PrimitiveRangeIsSlotwise ==
    (InBoundsRange /\ a.kind \in {"prim", "bool"} /\ b.kind = a.kind)
    => res = Bool(\A k \in 0..(args[2] - args[1] - 1) :
                     SameSlot(a, args[1] + k, b, args[3] + k))

\* C29 happens: a range whose first slot pair is null and whose second pair is
\* valid has compared equal, the two arrays being different windows.
C29_Witness ==
    /\ op = "range_equals"
    /\ a.kind \in {"prim", "bool"}
    /\ b.kind = a.kind
    /\ args = <<0, 2, 0>>
    /\ a.len = 2
    /\ b.len = 2
    /\ ~a.bits[1]
    /\ a.bits[2]
    /\ a.buf0[1] # b.buf0[1]
    /\ res = T

\* C30: StructArray::equals_json never reads the struct's own row validity: a
\* null element at row i matches exactly when every column is null at row i.
\* Against a sequence of the array's length made of null elements the result
\* is true exactly when every column is null at every row, and a match leaves
\* every column null at every row of a null element.
C30_StructJsonIgnoresRowValidity ==
    (op = "equals_json" /\ a.kind = "struct" /\ Len(json) = a.len)
    => LET null_rows == {i \in 0..(a.len - 1) : json[i + 1] = JNull}
           all_null(i) == \A c \in 1..Len(a.child) : IsNull(a.child[c], i, 0) = T
       IN /\ res = T => \A i \in null_rows : all_null(i)
          /\ null_rows = 0..(a.len - 1) => res = Bool(\A i \in null_rows : all_null(i))

\* C30 happens: a struct row marked valid whose column is null has matched a
\* null element, next to a row marked null.
C30_Witness ==
    /\ op = "equals_json"
    /\ a.kind = "struct"
    /\ a.len = 2
    /\ json = <<JNull, JNull>>
    /\ a.bits \in {<<TRUE, FALSE>>, <<FALSE, TRUE>>}
    /\ res = T

====
